---- MODULE Spec2Model ----
(***************************************************************************)
(* Model of the text analyzer (src/1-text_analyzer.py): the syllable       *)
(* counter, the complex-word classifier, the Gunning Fog calculator, the   *)
(* spelling-correction pass and the document-level orchestration; and of   *)
(* the keyword classifier (src/2-manual_classifier.py).                    *)
(*                                                                         *)
(* Text is a sequence of one-character strings; a token (word) is a        *)
(* non-empty sequence of characters without a space.  A Python call is     *)
(* modelled by its result record: exc = "none" and the returned value, or  *)
(* the name of the exception the call raises.                              *)
(***************************************************************************)
EXTENDS Integers, Sequences, FiniteSets, TLC

VARIABLES
    op,               \* name of the function applied ("none" before a call)
    arg,              \* its argument
    ret,              \* its result record
    dict,             \* the SpellChecker the spelling pass gets
    file,             \* the input file: [exists, text]
    pc,               \* position of process_text_file
    paragraphs,       \* line 283
    idx,              \* the loop index i of line 289 (1-based)
    fixed_paragraphs, \* line 286
    all_corrections,  \* line 287
    console,          \* what has been printed, in order
    out_file,         \* the output file: [given, writable, written, text]
    classifier        \* state of classify_text (src/2-manual_classifier.py)

vars == <<op, arg, ret, dict, file, pc, paragraphs, idx, fixed_paragraphs,
          all_corrections, console, out_file, classifier>>

(***************************************************************************)
(* Bounds of the model.                                                    *)
(***************************************************************************)
MaxWordLen == 3
MaxWords == 3

(***************************************************************************)
(* Characters.                                                             *)
(***************************************************************************)
LowerLetters ==
    {"a","b","c","d","e","f","g","h","i","j","k","l","m",
     "n","o","p","q","r","s","t","u","v","w","x","y","z"}

UpperLetters == {"A", "E", "I", "L", "N", "P", "T"}

Digits == {"0", "1", "2", "3", "4", "5", "6", "7", "8", "9"}

\* str.lower() on one character
LowerChar(c) ==
    CASE c = "A" -> "a"
      [] c = "E" -> "e"
      [] c = "I" -> "i"
      [] c = "L" -> "l"
      [] c = "N" -> "n"
      [] c = "P" -> "p"
      [] c = "T" -> "t"
      [] OTHER -> c

\* str.lower()
Lower(w) == [k \in 1..Len(w) |-> LowerChar(w[k])]

\* str.endswith(suffix)
EndsWith(w, suf) ==
    /\ Len(suf) <= Len(w)
    /\ SubSeq(w, Len(w) - Len(suf) + 1, Len(w)) = suf

Max(a, b) == IF a >= b THEN a ELSE b

\* F applied to the value of v: a local of the code that is assigned once
\* and read several times (v is evaluated once)
ApplyTo(v, F(_)) == CHOOSE r \in {F(x) : x \in {v}} : TRUE

(***************************************************************************)
(* count_syllables, lines 62-80.                                           *)
(***************************************************************************)
vowels_without_y == {"a", "e", "i", "o", "u"}

\* line 64
vowels == {"a", "e", "i", "o", "u", "y"}

\* lines 71-73: the loop over index = k-1 in range(1, len(word)); k is the
\* 1-based position of word[index]
RECURSIVE VowelGroupLoop(_, _, _)
VowelGroupLoop(word, k, count) ==
    IF k > Len(word) THEN count
    ELSE VowelGroupLoop(word, k + 1,
            IF word[k] \in vowels /\ word[k - 1] \notin vowels
            THEN count + 1 ELSE count)

\* lines 62-77: the count before the floor of line 80
SyllableRaw(w) ==
    LET word == Lower(w)
        first == IF word[1] \in vowels THEN 1 ELSE 0
        groups == VowelGroupLoop(word, 2, first)
    IN  IF EndsWith(word, <<"e">>) THEN groups - 1 ELSE groups

count_syllables_unfloored(w) == SyllableRaw(w)

\* lines 62-80, for a non-empty word (word[0] raises IndexError on "")
count_syllables(w) == Max(1, SyllableRaw(w))

(***************************************************************************)
(* count_complex_words, lines 37-44.                                       *)
(***************************************************************************)
\* line 42: word.endswith(('es', 'ed', 'ing'))
HasCommonSuffix(word) ==
    \/ EndsWith(word, <<"e", "s">>)
    \/ EndsWith(word, <<"e", "d">>)
    \/ EndsWith(word, <<"i", "n", "g">>)

IsComplex_no_suffix_test(word) == count_syllables(word) >= 3

\* lines 39-42
IsComplex(word) == count_syllables(word) >= 3 /\ ~HasCommonSuffix(word)

\* lines 37-44: the loop over words
RECURSIVE ComplexLoop(_, _, _)
ComplexLoop(words, k, complex_words) ==
    IF k > Len(words) THEN complex_words
    ELSE ComplexLoop(words, k + 1,
            IF IsComplex(words[k]) THEN complex_words + 1 ELSE complex_words)

count_complex_words(words) == ComplexLoop(words, 1, 0)

(***************************************************************************)
(* Text helpers.                                                           *)
(***************************************************************************)
Whitespace == {" ", "\n"}

\* the quote characters; the backquote is written by name because a string
\* of the module cannot hold it
SQuote == "'"
BQuote == "<backquote>"
DQuote == "\""

\* str.strip()
Strip(t) ==
    LET inked == {k \in 1..Len(t) : t[k] \notin Whitespace}
    IN  IF inked = {} THEN <<>>
        ELSE SubSeq(t, CHOOSE a \in inked : \A b \in inked : a <= b,
                       CHOOSE a \in inked : \A b \in inked : a >= b)

\* the chunks of t between runs of whitespace
RECURSIVE SplitWS(_, _)
SplitWS(t, cur) ==
    IF t = <<>> THEN (IF cur = <<>> THEN <<>> ELSE <<cur>>)
    ELSE IF t[1] \in Whitespace
         THEN (IF cur = <<>> THEN <<>> ELSE <<cur>>) \o SplitWS(Tail(t), <<>>)
         ELSE SplitWS(Tail(t), Append(cur, t[1]))

\* the concatenation of a sequence of sequences
RECURSIVE Flatten(_)
Flatten(ss) == IF ss = <<>> THEN <<>> ELSE Head(ss) \o Flatten(Tail(ss))

(***************************************************************************)
(* The tokenizers of NLTK, imported at line 15 and called at lines 100,    *)
(* 101, 142, 203 and 204.  They are library code: the operators below      *)
(* state what the Punkt sentence splitter and the Treebank word tokenizer  *)
(* do on the texts of this model (letters, digits, spaces and the          *)
(* punctuation marks, quotes and brackets; no abbreviations).              *)
(***************************************************************************)
\* Punkt: a sentence ends at ".", "!" or "?" followed by whitespace; the
\* last dot of an ellipsis does not end one.
SentenceEnd(t, k) ==
    /\ k < Len(t)
    /\ t[k] \in {".", "!", "?"}
    /\ t[k + 1] \in Whitespace
    /\ ~(t[k] = "." /\ k > 1 /\ t[k - 1] = ".")

\* the first position that ends a sentence of t, 0 if there is none
FirstSentenceEnd(t) ==
    LET ends == {k \in 1..Len(t) : SentenceEnd(t, k)}
    IN  IF ends = {} THEN 0 ELSE CHOOSE e \in ends : \A f \in ends : e <= f

\* sent_tokenize(text): the empty text has no sentence
RECURSIVE sent_tokenize(_)
sent_tokenize(text) ==
    ApplyTo(Strip(text), LAMBDA t :
      IF t = <<>> THEN <<>>
      ELSE ApplyTo(FirstSentenceEnd(t), LAMBDA k :
             IF k = 0 THEN <<t>>
             ELSE <<SubSeq(t, 1, k)>>
                    \o sent_tokenize(SubSeq(t, k + 1, Len(t)))))

ClosingChars == {"]", ")", "}", ">", DQuote, SQuote, " ", "\n"}

\* Treebank: a double quote after one of these opens a quotation
OpeningContext == {" ", "\n", "(", "[", "{", "<"}

\* Treebank: characters always split off as a token of their own
SplitChars ==
    {";", "@", "#", "$", "%", "&", "?", "!",
     "[", "]", "(", ")", "{", "}", "<", ">"}

\* Treebank: the period that ends the sentence (only closing quotes,
\* brackets and whitespace follow it, and no period precedes it)
FinalPeriod(s, k) ==
    /\ s[k] = "."
    /\ k > 1
    /\ s[k - 1] # "."
    /\ \A j \in (k + 1)..Len(s) : s[j] \in ClosingChars

\* Treebank: the rewriting that puts spaces around the punctuation it
\* splits off, from position k of sentence s on.  A double quote becomes
\* two backquotes (opening) or two single quotes (closing); an ellipsis, a
\* double dash and those quote pairs stay one token; a comma or colon is
\* split unless a digit follows; a single dash is not split.
RECURSIVE Pad(_, _)
Pad(s, k) ==
    IF k > Len(s) THEN <<>>
    ELSE
      LET c == s[k]
          prev == IF k > 1 THEN s[k - 1] ELSE " "
          next == IF k < Len(s) THEN s[k + 1] ELSE " "
          next2 == IF k + 1 < Len(s) THEN s[k + 2] ELSE " "
      IN  CASE c = DQuote ->
                  (IF prev \in OpeningContext
                   THEN <<" ", BQuote, BQuote, " ">>
                   ELSE <<" ", SQuote, SQuote, " ">>) \o Pad(s, k + 1)
            [] c = BQuote /\ next = BQuote ->
                  <<" ", BQuote, BQuote, " ">> \o Pad(s, k + 2)
            [] c = SQuote /\ next = SQuote ->
                  <<" ", SQuote, SQuote, " ">> \o Pad(s, k + 2)
            [] c = "." /\ next = "." /\ next2 = "." ->
                  <<" ", ".", ".", ".", " ">> \o Pad(s, k + 3)
            [] c = "-" /\ next = "-" ->
                  <<" ", "-", "-", " ">> \o Pad(s, k + 2)
            [] c \in {",", ":"} /\ next \notin Digits ->
                  <<" ", c, " ">> \o Pad(s, k + 1)
            [] c = "." /\ FinalPeriod(s, k) ->
                  <<" ", ".", " ">> \o Pad(s, k + 1)
            [] c \in SplitChars ->
                  <<" ", c, " ">> \o Pad(s, k + 1)
            [] OTHER -> <<c>> \o Pad(s, k + 1)

\* Treebank: the contractions n-apostrophe-t and apostrophe-s are split
\* from the word
Contraction(chunk) ==
    LET n == Len(chunk) IN
    IF n > 3 /\ SubSeq(chunk, n - 2, n) = <<"n", SQuote, "t">>
    THEN <<SubSeq(chunk, 1, n - 3), <<"n", SQuote, "t">>>>
    ELSE IF n > 2 /\ SubSeq(chunk, n - 1, n) = <<SQuote, "s">>
    THEN <<SubSeq(chunk, 1, n - 2), <<SQuote, "s">>>>
    ELSE <<chunk>>

\* the Treebank tokens of one sentence
TreebankTokens(s) ==
    ApplyTo(SplitWS(Pad(s, 1), <<>>), LAMBDA chunks :
      Flatten([k \in 1..Len(chunks) |-> Contraction(chunks[k])]))

\* word_tokenize(text): the Treebank tokens of each sentence, in order
word_tokenize(text) ==
    ApplyTo(sent_tokenize(text), LAMBDA sents :
      Flatten([k \in 1..Len(sents) |-> TreebankTokens(sents[k])]))

(***************************************************************************)
(* Inputs of the pure functions.                                           *)
(***************************************************************************)
W_cake == <<"c", "a", "k", "e">>
W_syllable == <<"s", "y", "l", "l", "a", "b", "l", "e">>
W_the == <<"t", "h", "e">>
W_e == <<"e">>
W_be == <<"b", "e">>
W_running == <<"r", "u", "n", "n", "i", "n", "g">>
W_medical == <<"m", "e", "d", "i", "c", "a", "l">>
W_united == <<"u", "n", "i", "t", "e", "d">>
W_abiding == <<"a", "b", "i", "d", "i", "n", "g">>
W_canopies == <<"c", "a", "n", "o", "p", "i", "e", "s">>
W_algorithm == <<"a", "l", "g", "o", "r", "i", "t", "h", "m">>

\* every sequence over S of length 0..n
SeqsUpTo(S, n) == UNION {[1..k -> S] : k \in 0..n}

SyllableAlphabet == {"a", "e", "y", "b", "E"}

SyllableInputs ==
    SeqsUpTo(SyllableAlphabet, MaxWordLen)
        \cup {W_cake, W_syllable, W_the, W_e, W_be, W_running, W_medical,
              W_united, W_abiding, W_canopies, W_algorithm}

ComplexWordPool ==
    {W_cake, W_the, W_running, W_medical, W_united, W_abiding, W_canopies,
     W_algorithm}

ComplexInputs == SeqsUpTo(ComplexWordPool, MaxWords)

(***************************************************************************)
(* Token tests used by the spelling pass and the readability calculator.   *)
(***************************************************************************)
\* string.punctuation (line 19), the 32 characters in order
string_punctuation ==
    <<"!", DQuote, "#", "$", "%", "&", SQuote, "(",
      ")", "*", "+", ",", "-", ".", "/", ":",
      ";", "<", "=", ">", "?", "@", "[", "\\",
      "]", "^", "_", BQuote, "{", "|", "}", "~">>

\* word in string.punctuation (lines 102, 148, 172, 205): the substring
\* test of Python on two strings
InStringPunctuation(word) ==
    \E k \in 1..(Len(string_punctuation) + 1) :
        /\ k + Len(word) - 1 <= Len(string_punctuation)
        /\ SubSeq(string_punctuation, k, k + Len(word) - 1) = word

\* str.isdigit()
isdigit(word) == word # <<>> /\ \A k \in 1..Len(word) : word[k] \in Digits

\* str.isupper(): a cased character, and no lower-case one
isupper(word) ==
    /\ \E k \in 1..Len(word) : word[k] \in UpperLetters
    /\ \A k \in 1..Len(word) : word[k] \notin LowerLetters

\* lines 135-138
technical_terms ==
    {<<"N", "L", "P">>,
     <<"A", "I">>,
     <<"p", "a", "n", "g", "r", "a", "m">>,
     <<"c", "h", "a", "t", "b", "o", "t", "s">>,
     <<"a", "n", "a", "l", "y", "t", "i", "c", "s">>,
     <<"a", "l", "g", "o", "r", "i", "t", "h", "m">>,
     <<"a", "l", "g", "o", "r", "i", "t", "h", "m", "s">>}

(***************************************************************************)
(* The SpellChecker of line 132.  It is library code and its word list is  *)
(* data: a dictionary of the model is [available, known, fix], where       *)
(* available says whether SpellChecker() can be constructed, known is the  *)
(* set of lower-case words of its list and fix names how it answers        *)
(* correction().  None, no correction, is the empty word.                  *)
(***************************************************************************)
W_teh == <<"t", "e", "h">>

\* spell.known([word.lower()]) of line 159, after the technical terms were
\* loaded by lines 139-140 (load_words stores them lower-cased)
Known(d, word) ==
    Lower(word) \in d.known \cup {Lower(t) : t \in technical_terms}

\* spell.correction(word) of line 160
Correction(d, word) ==
    CASE d.fix = "same" -> word
      [] d.fix = "the" -> W_the
      [] d.fix = "english" -> (IF Lower(word) = W_teh THEN W_the ELSE <<>>)
      [] OTHER -> <<>>

(***************************************************************************)
(* Result records of a call.                                               *)
(***************************************************************************)
Returned(v) == [exc |-> "none", val |-> v]
Raised(e) == [exc |-> e, val |-> 0]

(***************************************************************************)
(* fix_spelling, lines 132-176.                                            *)
(***************************************************************************)
\* lines 148-149: the test that skips punctuation, numbers and known terms
Skipped(word) ==
    \/ InStringPunctuation(word)
    \/ isdigit(word)
    \/ word \in technical_terms
    \/ isupper(word)

\* lines 148-167, one pass of the loop body: the token appended to
\* fixed_words, the records appended to corrections, the branch taken and
\* whether a dictionary query raised
FixToken(d, word) ==
    IF Skipped(word)
    THEN [out |-> word, recs |-> <<>>, outcome |-> "exempt", exc |-> "none"]
    ELSE IF \E k \in 1..Len(word) : word[k] = SQuote
    THEN [out |-> word, recs |-> <<>>, outcome |-> "exempt", exc |-> "none"]
    ELSE IF d.fix = "raise"
    THEN [out |-> word, recs |-> <<>>, outcome |-> "raised",
          exc |-> "SpellCheckerError"]
    ELSE IF ~Known(d, word)
    THEN LET correction == Correction(d, word)
         IN  IF correction # <<>> /\ correction # word
             THEN [out |-> correction, recs |-> <<<<word, correction>>>>,
                   outcome |-> "corrected", exc |-> "none"]
             ELSE [out |-> word, recs |-> <<>>, outcome |-> "unchanged",
                   exc |-> "none"]
    ELSE [out |-> word, recs |-> <<>>, outcome |-> "unchanged", exc |-> "none"]

\* the loop with a skipped token not appended to fixed_words
RECURSIVE FixLoop_dropping_skipped(_, _, _, _)
FixLoop_dropping_skipped(d, words, k, acc) ==
    IF k > Len(words) THEN acc
    ELSE ApplyTo(FixToken(d, words[k]), LAMBDA r :
           IF r.exc # "none"
           THEN [acc EXCEPT !.exc = r.exc]
           ELSE IF Skipped(words[k])
           THEN FixLoop_dropping_skipped(d, words, k + 1, acc)
           ELSE ApplyTo([fixed_words |-> Append(acc.fixed_words, r.out),
                         corrections |-> acc.corrections \o r.recs,
                         outcomes |-> Append(acc.outcomes, r.outcome),
                         exc |-> "none"],
                        LAMBDA next :
                          FixLoop_dropping_skipped(d, words, k + 1, next)))

\* lines 146-167: the loop over words, from position k on; acc holds
\* fixed_words and corrections, the branch taken for each token, and the
\* exception of a dictionary query, which leaves the loop
RECURSIVE FixLoop(_, _, _, _)
FixLoop(d, words, k, acc) ==
    IF k > Len(words) THEN acc
    ELSE ApplyTo(FixToken(d, words[k]), LAMBDA r :
           IF r.exc # "none"
           THEN [acc EXCEPT !.exc = r.exc]
           ELSE ApplyTo([fixed_words |-> Append(acc.fixed_words, r.out),
                         corrections |-> acc.corrections \o r.recs,
                         outcomes |-> Append(acc.outcomes, r.outcome),
                         exc |-> "none"],
                        LAMBDA next : FixLoop(d, words, k + 1, next)))

\* lines 170-174: the reconstruction of the text
RECURSIVE Reconstruct(_, _, _)
Reconstruct(fixed_words, k, fixed_text) ==
    IF k > Len(fixed_words) THEN fixed_text
    ELSE Reconstruct(fixed_words, k + 1,
            (IF k > 1 /\ ~InStringPunctuation(fixed_words[k])
             THEN Append(fixed_text, " ") ELSE fixed_text) \o fixed_words[k])

\* the state of the loop before its first pass, lines 143-144
NothingFixed ==
    [fixed_words |-> <<>>, corrections |-> <<>>, outcomes |-> <<>>,
     exc |-> "none"]

\* fix_spelling(text), lines 116-176, with the SpellChecker d.  The value
\* returned is (fixed_text, corrections); the record also keeps the locals
\* words and fixed_words and the branch taken for each token.
fix_spelling(d, text) ==
    IF ~d.available THEN Raised("SpellCheckerError")
    ELSE
      ApplyTo(word_tokenize(text), LAMBDA words :
        ApplyTo(FixLoop(d, words, 1, NothingFixed), LAMBDA loop :
          IF loop.exc # "none" THEN Raised(loop.exc)
          ELSE Returned([fixed_text |-> Reconstruct(loop.fixed_words, 1, <<>>),
                         corrections |-> loop.corrections,
                         words |-> words,
                         fixed_words |-> loop.fixed_words,
                         outcomes |-> loop.outcomes])))

(***************************************************************************)
(* Numbers.  A Python float is modelled by the exact rational it stands    *)
(* for, <<numerator, denominator>> in lowest terms with a positive         *)
(* denominator; 0.4 is 2/5.  Rounding of the binary representation is not  *)
(* modelled.                                                               *)
(***************************************************************************)
RECURSIVE GCD(_, _)
GCD(a, b) == IF b = 0 THEN a ELSE GCD(b, a % b)

\* n / d, for d > 0 and n >= 0
Q(n, d) == LET g == GCD(n, d) IN <<n \div g, d \div g>>

QAdd(x, y) == Q(x[1] * y[2] + y[1] * x[2], x[2] * y[2])

QMul(x, y) == Q(x[1] * y[1], x[2] * y[2])

(***************************************************************************)
(* calculate_gunning_fog, lines 100-114, and analyze_text, lines 203-223.  *)
(***************************************************************************)
NotInStringPunctuation(word) == ~InStringPunctuation(word)

\* lines 101-102 and 204-205: the lower-cased tokens that are not in
\* string.punctuation
FogWords(text) ==
    ApplyTo(SelectSeq(word_tokenize(text), NotInStringPunctuation),
            LAMBDA kept : [k \in 1..Len(kept) |-> Lower(kept[k])])

\* line 106
percent_complex(complex_word_count, n) ==
    QMul(Q(complex_word_count, n), Q(100, 1))

\* lines 104-114, with sentences and words computed
GunningFogOf(sentences, words) ==
    IF Len(sentences) = 0 THEN Raised("ZeroDivisionError")
    ELSE IF Len(words) = 0 THEN Raised("ZeroDivisionError")
    ELSE
      LET avg_sentence_length == Q(Len(words), Len(sentences))
          complex_word_count == count_complex_words(words)
          percent_complex_words ==
              percent_complex(complex_word_count, Len(words))
          gunning_fog ==
              QMul(Q(2, 5), QAdd(avg_sentence_length, percent_complex_words))
      IN  Returned([gunning_fog_index |-> gunning_fog,
                    avg_sentence_length |-> avg_sentence_length,
                    percent_complex_words |-> percent_complex_words,
                    complex_word_count |-> complex_word_count])

\* calculate_gunning_fog(text), lines 100-114: the divisions of lines 104
\* and 106 raise ZeroDivisionError on a zero divisor
calculate_gunning_fog(text) ==
    ApplyTo(sent_tokenize(text), LAMBDA sentences :
      ApplyTo(FogWords(text), LAMBDA words :
        GunningFogOf(sentences, words)))

\* stopwords.words("english") of line 208, library data: its entries among
\* the words of this model
stop_words ==
    {<<"t", "h", "e">>, <<"o", "n">>, <<"a">>, <<"h", "e">>, <<"d", "o">>, <<"i">>}

NotStopWord(word) == word \notin stop_words

\* lines 208-223, with sentences, words and readability computed
AnalysisOf(sentences, words, readability) ==
    LET filtered_words == SelectSeq(words, NotStopWord)
    IN  [num_sentences |-> Len(sentences),
         num_words |-> Len(words),
         num_unique_words |-> Cardinality({words[k] : k \in 1..Len(words)}),
         avg_words_per_sentence |->
             IF Len(sentences) > 0
             THEN Q(Len(words), Len(sentences)) ELSE Q(0, 1),
         word_frequency |->
             [w \in {filtered_words[k] : k \in 1..Len(filtered_words)} |->
                 Cardinality({k \in 1..Len(filtered_words) :
                                 filtered_words[k] = w})],
         readability |-> readability]

\* analyze_text(text), lines 203-223; the exception of line 213 propagates.
\* most_common_words, the five most frequent entries of word_frequency, is
\* left out.
analyze_text(text) ==
    ApplyTo(calculate_gunning_fog(text), LAMBDA readability :
      IF readability.exc # "none" THEN readability
      ELSE ApplyTo(sent_tokenize(text), LAMBDA sentences :
             ApplyTo(FogWords(text), LAMBDA words :
               Returned(AnalysisOf(sentences, words, readability.val)))))

(***************************************************************************)
(* Texts and dictionaries the functions are applied to.                    *)
(***************************************************************************)
MaxChunks == 3

C_teh == <<"t", "e", "h">>
C_cat == <<"c", "a", "t", ".">>
C_dash == <<"-">>
C_ddash == <<"-", "-">>
C_ellipsis == <<".", ".", ".">>
C_quoted == <<DQuote, "h", "i", DQuote>>
C_NLP == <<"N", "L", "P">>
C_42 == <<"4", "2">>
C_dont == <<"d", "o", "n", SQuote, "t">>
C_ok == <<"o", "k", ",">>
C_bang == <<"!">>
C_medical == <<"m", "e", "d", "i", "c", "a", "l">>
C_TEH == <<"T", "E", "H">>
C_pangram == <<"p", "a", "n", "g", "r", "a", "m">>

ChunkPool ==
    {C_teh, C_cat, C_dash, C_ddash, C_ellipsis,
     C_quoted, C_NLP, C_42, C_dont, C_ok,
     C_bang, C_medical, C_TEH, C_pangram}

\* the chunks joined by single spaces
RECURSIVE JoinChunks(_)
JoinChunks(cs) ==
    IF cs = <<>> THEN <<>>
    ELSE IF Len(cs) = 1 THEN cs[1]
    ELSE cs[1] \o <<" ">> \o JoinChunks(Tail(cs))

T_cat_mat == <<"T", "h", "e", " ", "c", "a", "t", " ", "s", "a", "t", " ", "o", "n", " ", "t", "h", "e", " ", "m", "a", "t", ".">>

TextInputs ==
    {JoinChunks(cs) : cs \in SeqsUpTo(ChunkPool, MaxChunks)} \cup {T_cat_mat}

EnglishWords ==
    {<<"t", "h", "e">>,
     <<"c", "a", "t">>,
     <<"s", "a", "t">>,
     <<"o", "n">>,
     <<"m", "a", "t">>,
     <<"h", "i">>,
     <<"o", "k">>,
     <<"d", "o">>,
     <<"m", "e", "d", "i", "c", "a", "l">>}

D_english == [available |-> TRUE, known |-> EnglishWords, fix |-> "english"]
D_hostile == [available |-> TRUE, known |-> {}, fix |-> "the"]
D_echo == [available |-> TRUE, known |-> {}, fix |-> "same"]
D_silent == [available |-> TRUE, known |-> {}, fix |-> "none"]
D_raising == [available |-> TRUE, known |-> {}, fix |-> "raise"]
D_missing == [available |-> FALSE, known |-> {}, fix |-> "none"]

Dictionaries == {D_english, D_hostile, D_echo, D_silent, D_raising, D_missing}

(***************************************************************************)
(* State of a run that has not started: no call made, no file processed.   *)
(***************************************************************************)
NoFile == [exists |-> FALSE, text |-> <<>>]
NoOutput == [given |-> FALSE, writable |-> FALSE, written |-> FALSE,
             text |-> <<>>]

IdleCall ==
    /\ op = "none"
    /\ arg = <<>>
    /\ ret = Returned(0)

\* classify_text not called: nothing loaded, classified, printed or written
IdleClassifier ==
    [pc |-> "idle", paragraphs |-> <<>>, idx |-> 0, tech_paragraphs |-> <<>>,
     medical_paragraphs |-> <<>>, console |-> <<>>,
     tech_file |-> NoOutput, medical_file |-> NoOutput]

IdleRun ==
    /\ dict = D_silent
    /\ file = NoFile
    /\ pc = "idle"
    /\ paragraphs = <<>>
    /\ idx = 0
    /\ fixed_paragraphs = <<>>
    /\ all_corrections = <<>>
    /\ console = <<>>
    /\ out_file = NoOutput
    /\ classifier = IdleClassifier

RunUnchanged ==
    UNCHANGED <<dict, file, pc, paragraphs, idx, fixed_paragraphs,
                all_corrections, console, out_file, classifier>>

(***************************************************************************)
(* Specification of the syllable counter and the complex-word classifier:  *)
(* one call of either function on an input of the bounded sets.            *)
(***************************************************************************)
\* count_syllables(word), lines 46-80; word[0] of line 67 raises on ""
CallCountSyllables ==
    /\ op = "none"
    /\ \E w \in SyllableInputs :
        /\ op' = "count_syllables"
        /\ arg' = w
        /\ ret' = IF w = <<>> THEN Raised("IndexError")
                  ELSE Returned(count_syllables(w))
    /\ RunUnchanged

\* count_complex_words(words), lines 23-44
CallCountComplexWords ==
    /\ op = "none"
    /\ \E ws \in ComplexInputs :
        /\ op' = "count_complex_words"
        /\ arg' = ws
        /\ ret' = Returned(count_complex_words(ws))
    /\ RunUnchanged

InitSyllable == IdleCall /\ IdleRun

NextSyllable == CallCountSyllables \/ CallCountComplexWords

SpecSyllable == InitSyllable /\ [][NextSyllable]_vars

(***************************************************************************)
(* Specification of the readability calculator: one call of                *)
(* calculate_gunning_fog or analyze_text on a text of the bounded set.     *)
(***************************************************************************)
CallGunningFog ==
    /\ op = "none"
    /\ \E text \in TextInputs :
        /\ op' = "calculate_gunning_fog"
        /\ arg' = text
        /\ ret' = calculate_gunning_fog(text)
    /\ RunUnchanged

CallAnalyzeText ==
    /\ op = "none"
    /\ \E text \in TextInputs :
        /\ op' = "analyze_text"
        /\ arg' = text
        /\ ret' = analyze_text(text)
    /\ RunUnchanged

InitFog == IdleCall /\ IdleRun

NextFog == CallGunningFog \/ CallAnalyzeText

SpecFog == InitFog /\ [][NextFog]_vars

(***************************************************************************)
(* Specification of the spelling pass: one call of fix_spelling on a text  *)
(* of the bounded set, with any of the dictionaries.                       *)
(***************************************************************************)
CallFixSpelling ==
    /\ op = "none"
    /\ \E text \in TextInputs :
        /\ op' = "fix_spelling"
        /\ arg' = text
        /\ ret' = fix_spelling(dict, text)
    /\ UNCHANGED <<dict, file, pc, paragraphs, idx, fixed_paragraphs,
                   all_corrections, console, out_file, classifier>>

InitSpell ==
    /\ IdleCall
    /\ dict \in Dictionaries
    /\ file = NoFile
    /\ pc = "idle"
    /\ paragraphs = <<>>
    /\ idx = 0
    /\ fixed_paragraphs = <<>>
    /\ all_corrections = <<>>
    /\ console = <<>>
    /\ out_file = NoOutput
    /\ classifier = IdleClassifier

NextSpell == CallFixSpelling

SpecSpell == InitSpell /\ [][NextSpell]_vars

(***************************************************************************)
(* process_text_file, lines 276-319.                                       *)
(***************************************************************************)
MaxParagraphs == 2

P_teh_cat == <<"t", "e", "h", " ", "c", "a", "t", ".">>
P_bang == <<"!">>
P_medical == <<"m", "e", "d", "i", "c", "a", "l", " ", "N", "L", "P", " ", "-", "-">>
P_blank == <<" ">>
P_two == <<" ", "h", "i", ".", " ", "o", "k", "!", " ">>

ParagraphPool == {P_teh_cat, P_bang, P_medical, P_blank, P_two}

BlankLine == <<"\n", "\n">>

\* the pieces joined by a blank line: the join of line 308, and how the
\* input files of the model are built
RECURSIVE JoinBlank(_)
JoinBlank(ps) ==
    IF ps = <<>> THEN <<>>
    ELSE IF Len(ps) = 1 THEN ps[1]
    ELSE ps[1] \o BlankLine \o JoinBlank(Tail(ps))

FileTexts == {JoinBlank(ps) : ps \in SeqsUpTo(ParagraphPool, MaxParagraphs)}

T_old == <<"o", "l", "d">>

\* text.split of line 283 on the blank-line separator: the pieces of t,
\* cur being the piece read so far
RECURSIVE SplitBlank(_, _)
SplitBlank(t, cur) ==
    IF t = <<>> THEN <<cur>>
    ELSE IF Len(t) >= 2 /\ SubSeq(t, 1, 2) = BlankLine
    THEN <<cur>> \o SplitBlank(SubSeq(t, 3, Len(t)), <<>>)
    ELSE SplitBlank(Tail(t), Append(cur, t[1]))

NonBlank(piece) == Strip(piece) # <<>>

\* line 283: the stripped pieces that are not empty
SplitParagraphs(text) ==
    ApplyTo(SelectSeq(SplitBlank(text, <<>>), NonBlank),
            LAMBDA kept : [k \in 1..Len(kept) |-> Strip(kept[k])])

\* a line group printed to the console
Printed(kind, i, data) == [kind |-> kind, i |-> i, data |-> data]

\* lines 277-287 and 316-317: the file is opened, read and split; a missing
\* file is reported and ends the run
OpenInput ==
    /\ pc = "start"
    /\ IF ~file.exists
       THEN /\ console' = Append(console, Printed("error_not_found", 0, <<>>))
            /\ pc' = "done"
            /\ UNCHANGED <<paragraphs, idx>>
       ELSE /\ paragraphs' = SplitParagraphs(file.text)
            /\ console' = Append(console,
                    Printed("found", 0, Len(SplitParagraphs(file.text))))
            /\ idx' = 1
            /\ pc' = IF SplitParagraphs(file.text) = <<>> THEN "finish"
                     ELSE "spell"
    /\ fixed_paragraphs' = <<>>
    /\ all_corrections' = <<>>
    /\ UNCHANGED <<op, arg, ret, dict, file, out_file, classifier>>

\* lines 289-301, and 318-319 when fix_spelling raises: the exception
\* leaves the loop and the try block
SpellParagraph ==
    /\ pc = "spell"
    /\ \E r \in {fix_spelling(dict, paragraphs[idx])} :
       LET header == console \o <<Printed("paragraph", idx, paragraphs[idx])>>
       IN  IF r.exc # "none"
           THEN /\ console' = Append(header, Printed("error", idx, r.exc))
                /\ pc' = "done"
                /\ UNCHANGED <<fixed_paragraphs, all_corrections>>
           ELSE /\ fixed_paragraphs' =
                      Append(fixed_paragraphs, r.val.fixed_text)
                /\ console' =
                      header
                        \o <<Printed("corrected", idx, r.val.fixed_text)>>
                        \o (IF r.val.corrections # <<>>
                            THEN <<Printed("corrections", idx,
                                           r.val.corrections)>>
                            ELSE <<>>)
                /\ all_corrections' = all_corrections \o r.val.corrections
                /\ pc' = "analyze"
    /\ UNCHANGED <<op, arg, ret, dict, file, paragraphs, idx, out_file,
                   classifier>>

\* lines 303-304 and the loop step of line 289, and 318-319 when
\* analyze_text raises
AnalyzeParagraph ==
    /\ pc = "analyze"
    /\ \E results \in {analyze_text(fixed_paragraphs[idx])} :
           IF results.exc # "none"
           THEN /\ console' = Append(console,
                                     Printed("error", idx, results.exc))
                /\ pc' = "done"
                /\ UNCHANGED idx
           ELSE /\ console' = Append(console,
                                     Printed("analysis", idx, results.val))
                /\ idx' = idx + 1
                /\ pc' = IF idx + 1 > Len(paragraphs) THEN "finish"
                         ELSE "spell"
    /\ UNCHANGED <<op, arg, ret, dict, file, paragraphs, fixed_paragraphs,
                   all_corrections, out_file, classifier>>

\* lines 306-314, and 318-319 when the output file cannot be written
FinishRun ==
    /\ pc = "finish"
    /\ IF out_file.given /\ ~out_file.writable
       THEN /\ console' = Append(console, Printed("error", 0, "OSError"))
            /\ UNCHANGED out_file
       ELSE /\ out_file' =
                  IF out_file.given
                  THEN [out_file EXCEPT !.written = TRUE,
                                        !.text = JoinBlank(fixed_paragraphs)]
                  ELSE out_file
            /\ console' =
                  console
                    \o (IF out_file.given
                        THEN <<Printed("saved", 0, <<>>)>> ELSE <<>>)
                    \o (IF all_corrections # <<>>
                        THEN <<Printed("summary", 0, all_corrections)>>
                        ELSE <<>>)
    /\ pc' = "done"
    /\ UNCHANGED <<op, arg, ret, dict, file, paragraphs, idx,
                   fixed_paragraphs, all_corrections, classifier>>

\* the state when process_text_file is called: the input file is absent or
\* holds one of the texts, the output path is given or not, the output
\* file can be written or not and holds earlier content
Init ==
    /\ IdleCall
    /\ dict \in Dictionaries
    /\ file \in {NoFile} \cup {[exists |-> TRUE, text |-> t] : t \in FileTexts}
    /\ pc = "start"
    /\ paragraphs = <<>>
    /\ idx = 0
    /\ fixed_paragraphs = <<>>
    /\ all_corrections = <<>>
    /\ console = <<>>
    /\ out_file \in {[given |-> g, writable |-> w, written |-> FALSE,
                      text |-> T_old] :
                        g \in BOOLEAN, w \in BOOLEAN}
    /\ classifier = IdleClassifier

Next == OpenInput \/ SpellParagraph \/ AnalyzeParagraph \/ FinishRun

Spec == Init /\ [][Next]_vars

(***************************************************************************)
(* Claims about the syllable counter and the complex-word classifier.      *)
(***************************************************************************)
\* positions of word (lower-cased) where a vowel group starts
GroupStarts(w) ==
    {k \in 1..Len(w) :
        /\ LowerChar(w[k]) \in {"a", "e", "i", "o", "u", "y"}
        /\ (k = 1 \/ LowerChar(w[k - 1]) \notin {"a", "e", "i", "o", "u", "y"})}

SilentE(w) == IF LowerChar(w[Len(w)]) = "e" THEN 1 ELSE 0

\* C4: for every non-empty word, count_syllables returns an integer >= 1,
\* also when the silent-e decrement drives the count to 0 or below first.
C4_SyllablesAtLeastOne ==
    (op = "count_syllables" /\ arg # <<>>) =>
        (ret.exc = "none" /\ ret.val \in Nat /\ ret.val >= 1)

\* C4 witness: a word whose count is 0 or below before the floor ("the",
\* "e", "be") has been counted.
C4_Witness ==
    /\ op = "count_syllables"
    /\ arg \in {W_the, W_e, W_be}
    /\ Cardinality(GroupStarts(arg)) - SilentE(arg) <= 0
    /\ ret.val = 1

\* C5 as stated: count_syllables("cake") = 1 and
\* count_syllables("syllable") = 4.
C5_ReferenceTableAsStated ==
    /\ (op = "count_syllables" /\ arg = W_cake) => ret.val = 1
    /\ (op = "count_syllables" /\ arg = W_syllable) => ret.val = 4

\* C5 amended: the result is (number of vowel-group starts over a,e,i,o,u,y)
\* minus 1 if the word ends in "e", floored at 1; this gives 1 for "cake"
\* and 2 for "syllable".
C5_ReferenceTable ==
    /\ (op = "count_syllables" /\ arg # <<>>) =>
          ret.val = Max(1, Cardinality(GroupStarts(arg)) - SilentE(arg))
    /\ (op = "count_syllables" /\ arg = W_cake) => ret.val = 1
    /\ (op = "count_syllables" /\ arg = W_syllable) => ret.val = 2

\* C5 witness: "syllable" has been counted, with vowel-group starts at
\* y, a and e and the silent-e decrement applied.
C5_Witness ==
    /\ op = "count_syllables"
    /\ arg = W_syllable
    /\ GroupStarts(arg) = {2, 5, 8}
    /\ ret.val = 2

\* the suffix exclusion of the complex-word contract
EndsInEsEdIng(w) ==
    LET n == Len(w) IN
    \/ (n >= 2 /\ w[n - 1] = "e" /\ w[n] = "s")
    \/ (n >= 2 /\ w[n - 1] = "e" /\ w[n] = "d")
    \/ (n >= 3 /\ w[n - 2] = "i" /\ w[n - 1] = "n" /\ w[n] = "g")

\* C6: count_complex_words returns exactly the number of positions whose
\* word has count_syllables >= 3 and does not end in "es", "ed" or "ing";
\* a word with such a suffix is never counted; ["running"] gives 0;
\* duplicates count once per occurrence.
C6_ComplexWordCount ==
    op = "count_complex_words" =>
        /\ ret.val = Cardinality({k \in 1..Len(arg) :
                        count_syllables(arg[k]) >= 3 /\ ~EndsInEsEdIng(arg[k])})
        /\ ((\A k \in 1..Len(arg) : EndsInEsEdIng(arg[k])) => ret.val = 0)
        /\ (arg = <<W_running>> => ret.val = 0)

\* C6 witness: a sequence holding a complex word twice and a word of three
\* or more syllables with an excluded suffix has been counted: 2 of 3.
C6_Witness ==
    /\ op = "count_complex_words"
    /\ Len(arg) = 3
    /\ \E j, k \in 1..Len(arg) :
          /\ j # k
          /\ arg[j] = arg[k]
          /\ count_syllables(arg[j]) >= 3
          /\ ~EndsInEsEdIng(arg[j])
    /\ \E k \in 1..Len(arg) :
          count_syllables(arg[k]) >= 3 /\ EndsInEsEdIng(arg[k])
    /\ ret.val = 2

(***************************************************************************)
(* Claims about the readability calculator and the spelling pass.          *)
(***************************************************************************)
PunctuationMarks == {string_punctuation[j] : j \in 1..Len(string_punctuation)}

\* a token made of punctuation marks only: a comma, a dash, an ellipsis,
\* a double dash, a pair of quote marks
IsPunctuationToken(t) ==
    t # <<>> /\ \A k \in 1..Len(t) : t[k] \in PunctuationMarks

\* the tokens of a text that are not punctuation tokens
NonPunctuationTokens(text) ==
    LET toks == word_tokenize(text)
    IN  {k \in 1..Len(toks) : ~IsPunctuationToken(toks[k])}

ZeroReport ==
    [gunning_fog_index |-> <<0, 1>>, avg_sentence_length |-> <<0, 1>>,
     percent_complex_words |-> <<0, 1>>, complex_word_count |-> 0]

\* C2 as stated: calculate_gunning_fog never propagates a division-by-zero
\* fault; for a text with no sentence or no non-punctuation word it fails
\* with a defined empty-input error or returns an all-zero report.
C2_NoArithmeticFault ==
    op = "calculate_gunning_fog" =>
        /\ ret.exc # "ZeroDivisionError"
        /\ (Len(sent_tokenize(arg)) = 0 \/ NonPunctuationTokens(arg) = {}) =>
              \/ ret.exc = "EmptyTextError"
              \/ (ret.exc = "none" /\ ret.val = ZeroReport)

\* a = b as rationals <<numerator, denominator>>
SameNumber(a, b) == a[1] * b[2] = b[1] * a[2]

\* C7 as stated: for a text with at least one sentence and one
\* non-punctuation word, avg_sentence_length = words / sentences,
\* percent_complex_words = 100 * complex_word_count / words and
\* gunning_fog_index = 0.4 * (avg_sentence_length + percent_complex_words),
\* punctuation tokens excluded from the word count; for
\* The cat sat on the mat. this gives 1 sentence, 6 words, 6.0, 0 and 2.4.
C7_GunningFogFormula ==
    (/\ op = "calculate_gunning_fog"
     /\ Len(sent_tokenize(arg)) >= 1
     /\ NonPunctuationTokens(arg) # {}) =>
        LET S == Len(sent_tokenize(arg))
            W == Cardinality(NonPunctuationTokens(arg))
            r == ret.val
        IN  /\ ret.exc = "none"
            /\ SameNumber(r.avg_sentence_length, <<W, S>>)
            /\ SameNumber(r.percent_complex_words,
                          <<100 * r.complex_word_count, W>>)
            /\ SameNumber(r.gunning_fog_index,
                          <<2 * (W * W + 100 * r.complex_word_count * S),
                            5 * S * W>>)
            /\ (arg = T_cat_mat =>
                    /\ S = 1
                    /\ W = 6
                    /\ r.avg_sentence_length = <<6, 1>>
                    /\ r.complex_word_count = 0
                    /\ r.gunning_fog_index = <<12, 5>>)

\* the allowlist of the spelling pass
Allowlist ==
    {<<"N", "L", "P">>,
     <<"A", "I">>,
     <<"p", "a", "n", "g", "r", "a", "m">>,
     <<"c", "h", "a", "t", "b", "o", "t", "s">>,
     <<"a", "n", "a", "l", "y", "t", "i", "c", "s">>,
     <<"a", "l", "g", "o", "r", "i", "t", "h", "m">>,
     <<"a", "l", "g", "o", "r", "i", "t", "h", "m", "s">>}

\* a token the spelling pass must leave alone: punctuation, entirely
\* numeric, entirely upper-case, on the allowlist, or holding an apostrophe
MustPassThrough(t) ==
    \/ IsPunctuationToken(t)
    \/ (t # <<>> /\ \A k \in 1..Len(t) : t[k] \in Digits)
    \/ (t # <<>> /\ \A k \in 1..Len(t) : t[k] \in UpperLetters)
    \/ t \in Allowlist
    \/ \E k \in 1..Len(t) : t[k] = SQuote

FixSpellingReturned == op = "fix_spelling" /\ ret.exc = "none"

\* C8 as stated: every token that is punctuation, entirely numeric,
\* entirely upper-case, on the allowlist or holds an apostrophe appears
\* unchanged at the same position of the output and produces no
\* CorrectionRecord, whatever the dictionary answers.
C8_ExemptTokensUntouched ==
    FixSpellingReturned =>
        \A k \in 1..Len(ret.val.words) :
            MustPassThrough(ret.val.words[k]) =>
                /\ k <= Len(ret.val.fixed_words)
                /\ ret.val.fixed_words[k] = ret.val.words[k]
                /\ \A j \in 1..Len(ret.val.corrections) :
                      ret.val.corrections[j][1] # ret.val.words[k]

\* each token got one output token by one of the three outcomes, at the
\* same position
OneOutputPerToken ==
    /\ ret.val.words = word_tokenize(arg)
    /\ Len(ret.val.fixed_words) = Len(ret.val.words)
    /\ Len(ret.val.outcomes) = Len(ret.val.words)
    /\ \A k \in 1..Len(ret.val.words) :
          \/ /\ ret.val.outcomes[k] \in {"exempt", "unchanged"}
             /\ ret.val.fixed_words[k] = ret.val.words[k]
          \/ /\ ret.val.outcomes[k] = "corrected"
             /\ ret.val.fixed_words[k] # ret.val.words[k]
             /\ \E j \in 1..Len(ret.val.corrections) :
                   ret.val.corrections[j] =
                       <<ret.val.words[k], ret.val.fixed_words[k]>>

RECURSIVE JoinByRule(_, _)
JoinByRule(tokens, k) ==
    IF k > Len(tokens) THEN <<>>
    ELSE (IF k > 1 /\ ~IsPunctuationToken(tokens[k]) THEN <<" ">> ELSE <<>>)
            \o tokens[k] \o JoinByRule(tokens, k + 1)

\* C10 as stated: the text returned is the output tokens in order with one
\* space before every token except the first and none before a token that
\* is a punctuation mark, multi-character punctuation included.
C10_ReconstructionRule ==
    FixSpellingReturned =>
        ret.val.fixed_text = JoinByRule(ret.val.fixed_words, 1)

(***************************************************************************)
(* Claims about the error handling of process_text_file.                   *)
(***************************************************************************)
\* the console holds a line group of this kind for paragraph j
Has(kind, j) ==
    \E n \in 1..Len(console) : console[n].kind = kind /\ console[n].i = j

\* the spelling pass fails on paragraph j
SpellingFails(j) == fix_spelling(dict, paragraphs[j]).exc # "none"

\* the spelling pass returns for paragraph j and the analysis of its
\* corrected text fails
AnalysisFails(j) ==
    /\ ~SpellingFails(j)
    /\ analyze_text(fix_spelling(dict, paragraphs[j]).val.fixed_text).exc
          # "none"

\* paragraph j was spell-corrected, and analysed and reported or, its
\* analysis failing, reported as failed
Handled(j) ==
    /\ Has("corrected", j)
    /\ IF AnalysisFails(j) THEN Has("error", j) ELSE Has("analysis", j)

\* C1 as stated: when the analysis of paragraph k fails, the failure is
\* reported, paragraph k is skipped, and every later paragraph is still
\* spell-corrected, analysed and reported (runs whose dictionary works).
C1_ParagraphErrorsDoNotAbort ==
    (/\ pc = "done"
     /\ file.exists
     /\ \A j \in 1..Len(paragraphs) : ~SpellingFails(j)) =>
        \A k \in 1..Len(paragraphs) :
            AnalysisFails(k) =>
                /\ Has("error", k)
                /\ ~Has("analysis", k)
                /\ \A j \in (k + 1)..Len(paragraphs) : Handled(j)

\* C3 as stated: a failure inside the spelling pass degrades to
\* pass-through: the tokens of the paragraph come back unchanged with no
\* correction, and process_text_file goes on to analyse that paragraph and
\* all later ones instead of aborting the run.
C3_SpellingFailurePassesThrough ==
    (pc = "done" /\ file.exists) =>
        \A k \in 1..Len(paragraphs) :
            SpellingFails(k) =>
                /\ \E n \in 1..Len(console) :
                      /\ console[n].kind = "corrected"
                      /\ console[n].i = k
                      /\ console[n].data =
                            Reconstruct(word_tokenize(paragraphs[k]), 1, <<>>)
                /\ ~Has("corrections", k)
                /\ \A j \in k..Len(paragraphs) :
                      Has("analysis", j) \/ Has("error", j)

(***************************************************************************)
(* Claims about the correction records.                                    *)
(***************************************************************************)
\* a token for which a record is due: not exempt, its case-folded form not
\* known to the dictionary, and a correction that exists and differs
RecordDue(d, t) ==
    /\ ~MustPassThrough(t)
    /\ ~Known(d, t)
    /\ Correction(d, t) # <<>>
    /\ Correction(d, t) # t

\* the records due for the tokens from position k on, in token order
RECURSIVE RecordsDue(_, _, _)
RecordsDue(d, tokens, k) ==
    IF k > Len(tokens) THEN <<>>
    ELSE (IF RecordDue(d, tokens[k])
          THEN <<<<tokens[k], Correction(d, tokens[k])>>>> ELSE <<>>)
            \o RecordsDue(d, tokens, k + 1)

\* the output tokens due: the correction where a record is due, the token
\* itself elsewhere
TokensDue(d, tokens) ==
    [k \in 1..Len(tokens) |->
        IF RecordDue(d, tokens[k]) THEN Correction(d, tokens[k])
        ELSE tokens[k]]

\* the correction list printed for paragraph j, empty when none was printed
PrintedCorrections(j) ==
    IF Has("corrections", j)
    THEN (CHOOSE e \in {console[n] : n \in 1..Len(console)} :
              e.kind = "corrections" /\ e.i = j).data
    ELSE <<>>

\* the lists due for paragraphs j..n, concatenated in paragraph order
RECURSIVE ConcatDue(_, _)
ConcatDue(j, n) ==
    IF j > n THEN <<>>
    ELSE RecordsDue(dict, word_tokenize(paragraphs[j]), 1)
            \o ConcatDue(j + 1, n)

\* C11 as stated: a record (original, corrected) is emitted for a token if
\* and only if the token is not exempt, the dictionary does not know its
\* case-folded form and the correction exists and differs; the output token
\* is then the correction; records are in token order, and the document
\* list is the concatenation of the paragraph lists in paragraph order.
C11_CorrectionRecords ==
    /\ \A j \in 1..Len(fixed_paragraphs) :
          /\ PrintedCorrections(j) =
                RecordsDue(dict, word_tokenize(paragraphs[j]), 1)
          /\ fixed_paragraphs[j] =
                Reconstruct(TokensDue(dict, word_tokenize(paragraphs[j])),
                            1, <<>>)
    /\ all_corrections = ConcatDue(1, Len(fixed_paragraphs))

(***************************************************************************)
(* Specification of the spelling pass run twice: fix_spelling on a text of *)
(* the bounded set, then fix_spelling on the text it returned, with the    *)
(* same dictionary.                                                        *)
(***************************************************************************)
\* fix_spelling(fixed_text), lines 116-176, on the text of an earlier call
CallFixSpellingAgain ==
    /\ op = "fix_spelling"
    /\ ret.exc = "none"
    /\ op' = "fix_spelling_again"
    /\ arg' = ret.val.fixed_text
    /\ \E r \in {fix_spelling(dict, ret.val.fixed_text)} : ret' = r
    /\ RunUnchanged

NextRespell == CallFixSpelling \/ CallFixSpellingAgain

SpecRespell == InitSpell /\ [][NextRespell]_vars

(***************************************************************************)
(* Claims about running the spelling pass again.                           *)
(***************************************************************************)
\* every token of the text that is not exempt is known to the dictionary
NoUnknownWords(d, text) ==
    \A t \in {word_tokenize(text)[k] : k \in 1..Len(word_tokenize(text))} :
        MustPassThrough(t) \/ Known(d, t)

\* C12 as stated: if t is text produced by fix_spelling and every
\* non-exempt token of t is known to the dictionary, fix_spelling(t)
\* returns exactly t and an empty correction list.
C12_Idempotence ==
    (op = "fix_spelling_again" /\ NoUnknownWords(dict, arg)) =>
        /\ ret.exc = "none"
        /\ ret.val.fixed_text = arg
        /\ ret.val.corrections = <<>>

(***************************************************************************)
(* The keyword classifier, src/2-manual_classifier.py.                     *)
(***************************************************************************)
\* keyword in paragraph_lower (lines 49-50, 100-101): the substring test
Contains(text, sub) ==
    \E k \in 1..(Len(text) + 1) :
        /\ k + Len(sub) - 1 <= Len(text)
        /\ SubSeq(text, k, k + Len(sub) - 1) = sub

\* a word character of a regular expression
IsWordChar(c) == c \in LowerLetters \cup UpperLetters \cup Digits \cup {"_"}

\* the regular expression \b holds before position k of text
WordBoundary(text, k) ==
    (k - 1 >= 1 /\ IsWordChar(text[k - 1]))
        # (k <= Len(text) /\ IsWordChar(text[k]))

\* \bword\b matches at position k of text
WordAt(text, k, word) ==
    /\ k + Len(word) - 1 <= Len(text)
    /\ SubSeq(text, k, k + Len(word) - 1) = word
    /\ WordBoundary(text, k)
    /\ WordBoundary(text, k + Len(word))

\* re.search of \b(w1|w2|...)\b for the words of the set
HasWord(text, words) ==
    \E k \in 1..Len(text) : \E word \in words : WordAt(text, k, word)

W_year == <<"y", "e", "a", "r">>
W_old == <<"o", "l", "d">>

\* line 60: digits, a hyphen or whitespace, year, a hyphen or whitespace,
\* old, between word boundaries
AgePattern(text) ==
    \E k \in 1..Len(text) : \E m \in (k + 1)..Len(text) :
        /\ WordBoundary(text, k)
        /\ \A j \in k..(m - 1) : text[j] \in Digits
        /\ m + 8 <= Len(text)
        /\ text[m] \in {"-"} \cup Whitespace
        /\ SubSeq(text, m + 1, m + 4) = W_year
        /\ text[m + 5] \in {"-"} \cup Whitespace
        /\ SubSeq(text, m + 6, m + 8) = W_old
        /\ WordBoundary(text, m + 9)

PresentationVerbs ==
    {<<"p", "r", "e", "s", "e", "n", "t">>,
     <<"p", "r", "e", "s", "e", "n", "t", "s">>,
     <<"c", "o", "m", "p", "l", "a", "i", "n">>,
     <<"c", "o", "m", "p", "l", "a", "i", "n", "s">>,
     <<"r", "e", "p", "o", "r", "t">>,
     <<"r", "e", "p", "o", "r", "t", "s">>,
     <<"a", "r", "r", "i", "v", "e">>,
     <<"a", "r", "r", "i", "v", "e", "s">>}

PresentationLinks == {<<"w", "i", "t", "h">>,<<"o", "f">>}

\* line 61: a presentation verb, then with or of as a word later on the
\* same line
PresentationPattern(text) ==
    \E k \in 1..Len(text) : \E verb \in PresentationVerbs :
        /\ WordAt(text, k, verb)
        /\ \E n \in (k + Len(verb))..Len(text) : \E link \in PresentationLinks :
              /\ WordAt(text, n, link)
              /\ \A j \in (k + Len(verb))..(n - 1) : text[j] # "\n"

\* lines 62-69: the words of the other patterns
CaseWords ==
    {<<"p", "a", "t", "i", "e", "n", "t">>,
     <<"d", "i", "a", "g", "n", "o", "s", "i", "s">>,
     <<"s", "y", "m", "p", "t", "o", "m">>,
     <<"s", "y", "m", "p", "t", "o", "m", "s">>,
     <<"s", "i", "g", "n">>,
     <<"s", "i", "g", "n", "s">>,
     <<"p", "a", "i", "n">>,
     <<"a", "c", "h", "e">>,
     <<"d", "i", "s", "c", "o", "m", "f", "o", "r", "t">>,
     <<"t", "r", "e", "a", "t", "m", "e", "n", "t">>,
     <<"m", "e", "d", "i", "c", "a", "t", "i", "o", "n">>,
     <<"m", "e", "d", "i", "c", "a", "l">>,
     <<"c", "l", "i", "n", "i", "c", "a", "l">>,
     <<"d", "o", "c", "t", "o", "r">>,
     <<"p", "h", "y", "s", "i", "c", "i", "a", "n">>,
     <<"n", "u", "r", "s", "e">>,
     <<"h", "o", "s", "p", "i", "t", "a", "l">>,
     <<"c", "l", "i", "n", "i", "c">>,
     <<"e", "m", "e", "r", "g", "e", "n", "c", "y">>}

\* is_medical_case(text), lines 54-77, re.IGNORECASE
is_medical_case(text) ==
    \/ AgePattern(Lower(text))
    \/ PresentationPattern(Lower(text))
    \/ HasWord(Lower(text), CaseWords)

\* lines 35-39
tech_keywords ==
    {<<"t", "e", "c", "h", "n", "o", "l", "o", "g", "y">>,
     <<"c", "o", "m", "p", "u", "t", "e", "r">>,
     <<"a", "r", "t", "i", "f", "i", "c", "i", "a", "l", " ", "i", "n", "t", "e", "l", "l", "i", "g", "e", "n", "c", "e">>,
     <<"a", "i">>,
     <<"m", "a", "c", "h", "i", "n", "e", " ", "l", "e", "a", "r", "n", "i", "n", "g">>,
     <<"n", "l", "p">>,
     <<"a", "l", "g", "o", "r", "i", "t", "h", "m">>,
     <<"d", "i", "g", "i", "t", "a", "l">>,
     <<"c", "h", "a", "t", "b", "o", "t">>,
     <<"a", "n", "a", "l", "y", "t", "i", "c", "s">>,
     <<"d", "a", "t", "a">>,
     <<"r", "e", "c", "o", "m", "m", "e", "n", "d", "a", "t", "i", "o", "n">>,
     <<"f", "a", "c", "i", "a", "l", " ", "r", "e", "c", "o", "g", "n", "i", "t", "i", "o", "n">>,
     <<"a", "u", "t", "o", "n", "o", "m", "o", "u", "s">>,
     <<"s", "m", "a", "r", "t">>}

\* lines 83-90
medical_keywords ==
    {<<"p", "a", "t", "i", "e", "n", "t">>,
     <<"d", "i", "a", "g", "n", "o", "s", "i", "s">>,
     <<"s", "y", "m", "p", "t", "o", "m", "s">>,
     <<"p", "a", "i", "n">>,
     <<"m", "e", "d", "i", "c", "a", "l">>,
     <<"c", "l", "i", "n", "i", "c", "a", "l">>,
     <<"t", "r", "e", "a", "t", "m", "e", "n", "t">>,
     <<"d", "i", "s", "e", "a", "s", "e">>,
     <<"h", "o", "s", "p", "i", "t", "a", "l">>,
     <<"d", "o", "c", "t", "o", "r">>,
     <<"f", "e", "v", "e", "r">>,
     <<"b", "l", "e", "e", "d", "i", "n", "g">>,
     <<"p", "r", "e", "s", "e", "n", "t", "s", " ", "w", "i", "t", "h">>,
     <<"c", "o", "m", "p", "l", "a", "i", "n", "s", " ", "o", "f">>,
     <<"i", "n", "j", "u", "r", "y">>,
     <<"s", "w", "e", "l", "l", "i", "n", "g">>,
     <<"f", "a", "t", "i", "g", "u", "e">>,
     <<"n", "a", "u", "s", "e", "a">>,
     <<"v", "o", "m", "i", "t", "i", "n", "g">>,
     <<"h", "e", "a", "d", "a", "c", "h", "e">>,
     <<"c", "h", "e", "s", "t">>,
     <<"h", "e", "a", "r", "t">>,
     <<"b", "r", "e", "a", "t", "h", "i", "n", "g">>,
     <<"b", "l", "o", "o", "d">>,
     <<"m", "e", "d", "i", "c", "a", "t", "i", "o", "n">>,
     <<"s", "u", "r", "g", "e", "r", "y">>,
     <<"e", "x", "a", "m", "i", "n", "a", "t", "i", "o", "n">>,
     <<"c", "o", "n", "d", "i", "t", "i", "o", "n">>,
     <<"c", "h", "r", "o", "n", "i", "c">>,
     <<"a", "c", "u", "t", "e">>,
     <<"p", "r", "e", "s", "c", "r", "i", "p", "t", "i", "o", "n">>,
     <<"t", "h", "e", "r", "a", "p", "y">>,
     <<"h", "e", "a", "l", "t", "h", "c", "a", "r", "e">>}

\* is_technology_related(paragraph), lines 31-52
is_technology_related(paragraph) ==
    IF is_medical_case(Lower(paragraph)) THEN FALSE
    ELSE Cardinality({keyword \in tech_keywords :
                        Contains(Lower(paragraph), keyword)}) > 0

\* is_medical_related(paragraph), lines 79-103
is_medical_related(paragraph) ==
    IF is_medical_case(Lower(paragraph)) THEN TRUE
    ELSE Cardinality({keyword \in medical_keywords :
                        Contains(Lower(paragraph), keyword)}) > 0

\* input paragraphs of the classifier
K_tech == <<"N", "L", "P", " ", "d", "a", "t", "a">>
K_fever == <<"f", "e", "v", "e", "r">>
K_fever_ai == <<"f", "e", "v", "e", "r", " ", "a", "i">>
K_age == <<"a", " ", "5", "-", "y", "e", "a", "r", "-", "o", "l", "d">>
K_said == <<"s", "a", "i", "d">>

KeywordPool ==
    {P_teh_cat, P_medical, P_blank, K_tech, K_fever, K_fever_ai, K_age, K_said}

KeywordFileTexts ==
    {JoinBlank(ps) : ps \in SeqsUpTo(KeywordPool, MaxParagraphs)}

\* load_text with a missing file taken for a file holding one paragraph
load_text_defaulting(f) ==
    [paragraphs |-> <<K_tech>>, printed |-> <<>>]

\* load_text(filename), lines 19-29: the stripped non-empty paragraphs of
\* the file; a missing file is reported and gives no paragraph
load_text(f) ==
    IF ~f.exists
    THEN [paragraphs |-> <<>>,
          printed |-> <<Printed("error_not_found", 0, <<>>)>>]
    ELSE [paragraphs |-> SplitParagraphs(f.text), printed |-> <<>>]

\* lines 110-118: the paragraphs are loaded; classify_text returns when
\* there is none
LoadText ==
    /\ classifier.pc = "start"
    /\ \E loaded \in {load_text(file)} :
          classifier' =
            [classifier EXCEPT
               !.console = @ \o loaded.printed,
               !.paragraphs = loaded.paragraphs,
               !.idx = IF loaded.paragraphs = <<>> THEN 0 ELSE 1,
               !.pc = IF loaded.paragraphs = <<>> THEN "done"
                      ELSE "classify"]
    /\ UNCHANGED <<op, arg, ret, dict, file, pc, paragraphs, idx,
                   fixed_paragraphs, all_corrections, console, out_file>>

\* the branch with the technology test made first
Category_technology_first(paragraph) ==
    IF is_technology_related(paragraph) THEN "technology"
    ELSE IF is_medical_related(paragraph) THEN "medical"
    ELSE "none"

\* lines 122-125: the branch taken for a paragraph, medical tested first
Category(paragraph) ==
    IF is_medical_related(paragraph) THEN "medical"
    ELSE IF is_technology_related(paragraph) THEN "technology"
    ELSE "none"

\* lines 120-125, one pass of the loop
ClassifyParagraph ==
    /\ classifier.pc = "classify"
    /\ LET paragraph == classifier.paragraphs[classifier.idx]
           last == classifier.idx = Len(classifier.paragraphs)
       IN  \E category \in {Category(paragraph)} :
             classifier' =
               [classifier EXCEPT
                  !.medical_paragraphs =
                      IF category = "medical" THEN Append(@, paragraph)
                      ELSE @,
                  !.tech_paragraphs =
                      IF category = "technology" THEN Append(@, paragraph)
                      ELSE @,
                  !.idx = @ + 1,
                  !.pc = IF last THEN "write_tech" ELSE "classify"]
    /\ UNCHANGED <<op, arg, ret, dict, file, pc, paragraphs, idx,
                   fixed_paragraphs, all_corrections, console, out_file>>

\* lines 128-130; open raises when the file cannot be written, and the
\* exception leaves classify_text
WriteTechnology ==
    /\ classifier.pc = "write_tech"
    /\ classifier' =
          IF ~classifier.tech_file.writable
          THEN [classifier EXCEPT !.pc = "raised"]
          ELSE [classifier EXCEPT
                  !.tech_file.written = TRUE,
                  !.tech_file.text = JoinBlank(classifier.tech_paragraphs),
                  !.console = Append(@, Printed("tech_written", 0, <<>>)),
                  !.pc = "write_medical"]
    /\ UNCHANGED <<op, arg, ret, dict, file, pc, paragraphs, idx,
                   fixed_paragraphs, all_corrections, console, out_file>>

\* lines 133-135
WriteMedical ==
    /\ classifier.pc = "write_medical"
    /\ classifier' =
          IF ~classifier.medical_file.writable
          THEN [classifier EXCEPT !.pc = "raised"]
          ELSE [classifier EXCEPT
                  !.medical_file.written = TRUE,
                  !.medical_file.text =
                      JoinBlank(classifier.medical_paragraphs),
                  !.console = Append(@, Printed("medical_written", 0, <<>>)),
                  !.pc = "done"]
    /\ UNCHANGED <<op, arg, ret, dict, file, pc, paragraphs, idx,
                   fixed_paragraphs, all_corrections, console, out_file>>

\* the state when classify_text is called: the input file is absent or
\* holds one of the texts, each output file can be written or not and
\* holds earlier content
InitClassify ==
    /\ IdleCall
    /\ dict = D_silent
    /\ file \in {NoFile}
                \cup {[exists |-> TRUE, text |-> t] : t \in KeywordFileTexts}
    /\ pc = "idle"
    /\ paragraphs = <<>>
    /\ idx = 0
    /\ fixed_paragraphs = <<>>
    /\ all_corrections = <<>>
    /\ console = <<>>
    /\ out_file = NoOutput
    /\ \E tw \in BOOLEAN, mw \in BOOLEAN :
          classifier =
            [IdleClassifier EXCEPT
               !.pc = "start",
               !.tech_file = [given |-> TRUE, writable |-> tw,
                              written |-> FALSE, text |-> T_old],
               !.medical_file = [given |-> TRUE, writable |-> mw,
                                 written |-> FALSE, text |-> T_old]]

NextClassify ==
    LoadText \/ ClassifyParagraph \/ WriteTechnology \/ WriteMedical

SpecClassify == InitClassify /\ [][NextClassify]_vars

(***************************************************************************)
(* Specification of a run of either program: process_text_file or          *)
(* classify_text is called.                                                *)
(***************************************************************************)
InitPrograms == Init \/ InitClassify

NextPrograms == Next \/ NextClassify

SpecPrograms == InitPrograms /\ [][NextPrograms]_vars

(***************************************************************************)
(* Claims about a missing input file.                                      *)
(***************************************************************************)
MissingReport == <<Printed("error_not_found", 0, <<>>)>>

\* nothing was written to the file f, which holds its earlier content
Untouched(f) == ~f.written /\ f.text = T_old

\* C13: when the input file is absent, process_text_file reports the error
\* and terminates with no paragraph report and no output file written, an
\* existing output file left as it was; and classify_text writes neither
\* the technology nor the medical file.
C13_MissingInput ==
    ~file.exists =>
        /\ pc \notin {"idle", "start"} =>
              /\ pc = "done"
              /\ console = MissingReport
              /\ Untouched(out_file)
        /\ classifier.pc \notin {"idle", "start"} =>
              /\ classifier.pc = "done"
              /\ classifier.console = MissingReport
              /\ Untouched(classifier.tech_file)
              /\ Untouched(classifier.medical_file)

\* C13 witness: process_text_file has ended on a missing input file, with
\* an output path given and writable.
C13_Witness ==
    /\ ~file.exists
    /\ pc = "done"
    /\ out_file.given
    /\ out_file.writable
    /\ console = MissingReport

(***************************************************************************)
(* Claims about the order of the paragraphs and the corrected-text file.   *)
(***************************************************************************)
\* the place in the console of the line group of this kind for paragraph j
Pos(kind, j) ==
    CHOOSE n \in 1..Len(console) :
        console[n].kind = kind /\ console[n].i = j

\* paragraph j was spell-corrected, then analysed, before the next one was
\* touched
InDocumentOrder(j) ==
    /\ Has("paragraph", j) /\ Has("corrected", j) /\ Has("analysis", j)
    /\ Pos("paragraph", j) < Pos("corrected", j)
    /\ Pos("corrected", j) < Pos("analysis", j)
    /\ Has("paragraph", j + 1) => Pos("analysis", j) < Pos("paragraph", j + 1)

\* the corrected texts of the trimmed non-blank paragraphs of the file
CorrectedParagraphs ==
    LET trimmed == SplitParagraphs(file.text)
    IN  [j \in 1..Len(trimmed) |->
            Reconstruct(fix_spelling(dict, trimmed[j]).val.fixed_words,
                        1, <<>>)]

\* the spelling pass returns on every paragraph of the file
DictionaryWorks ==
    \A j \in 1..Len(SplitParagraphs(file.text)) :
        fix_spelling(dict, SplitParagraphs(file.text)[j]).exc = "none"

\* C14 as stated: with N non-blank paragraphs and an output path given,
\* fix_spelling and then analyze_text are applied to paragraph i before
\* paragraph i+1 is touched, and the output file holds exactly the N
\* corrected texts of the trimmed paragraphs, in input order, joined by a
\* blank line (runs whose dictionary works and whose output file can be
\* written).
C14_DocumentOrder ==
    (/\ pc = "done"
     /\ file.exists
     /\ out_file.given
     /\ out_file.writable
     /\ DictionaryWorks) =>
        /\ \A j \in 1..Len(SplitParagraphs(file.text)) : InDocumentOrder(j)
        /\ out_file.written
        /\ out_file.text = JoinBlank(CorrectedParagraphs)

(***************************************************************************)
(* Claims about the independence of the paragraphs.                        *)
(***************************************************************************)
\* what is printed for paragraph j is what its content alone gives: the
\* corrected text, the correction list, and the report of the analysis or
\* its failure
ResultsOfContent(j) ==
    \E r \in {fix_spelling(dict, paragraphs[j]).val} :
    \E a \in {analyze_text(r.fixed_text)} :
        /\ Has("corrected", j)
        /\ console[Pos("corrected", j)].data = r.fixed_text
        /\ PrintedCorrections(j) = r.corrections
        /\ IF a.exc = "none"
           THEN Has("analysis", j)
                /\ console[Pos("analysis", j)].data = a.val
           ELSE Has("error", j)
                /\ console[Pos("error", j)].data = a.exc

\* C15 as stated: the corrected text, correction list and readability
\* report produced for a paragraph depend only on its content, not on which
\* other paragraphs are in the document or on their order (runs whose
\* dictionary works).
C15_ParagraphsIndependent ==
    (pc = "done" /\ file.exists /\ DictionaryWorks) =>
        \A j \in 1..Len(paragraphs) : ResultsOfContent(j)

(***************************************************************************)
(* Claims about the keyword classifier.                                    *)
(***************************************************************************)
\* the paragraphs the loop of classify_text has passed
Classified ==
    SubSeq(classifier.paragraphs, 1,
           IF classifier.pc = "classify" THEN classifier.idx - 1
           ELSE Len(classifier.paragraphs))

TechnologyOnly(paragraph) ==
    ~is_medical_related(paragraph) /\ is_technology_related(paragraph)

\* the paragraphs of a list, as a set
Members(list) == {list[k] : k \in 1..Len(list)}

\* C16: every paragraph is placed in at most one of the two lists, medical
\* taking priority: the medical list is the paragraphs for which
\* is_medical_related holds, the technology list those for which it does
\* not and is_technology_related holds, each in input order; and
\* is_technology_related is false whenever is_medical_case is true.
C16_MedicalPriority ==
    /\ classifier.medical_paragraphs = SelectSeq(Classified, is_medical_related)
    /\ classifier.tech_paragraphs = SelectSeq(Classified, TechnologyOnly)
    /\ Members(classifier.medical_paragraphs)
          \cap Members(classifier.tech_paragraphs) = {}
    /\ \A paragraph \in Members(classifier.paragraphs) :
          is_medical_case(Lower(paragraph)) =>
              ~is_technology_related(paragraph)

\* C16 witness: a paragraph that is both medical-related and
\* technology-related went to the medical list, a later one to the
\* technology list, and both files were written.
C16_Witness ==
    /\ classifier.pc = "done"
    /\ Len(classifier.paragraphs) = 2
    /\ is_medical_related(classifier.paragraphs[1])
    /\ is_technology_related(classifier.paragraphs[1])
    /\ classifier.medical_paragraphs = <<classifier.paragraphs[1]>>
    /\ classifier.tech_paragraphs = <<classifier.paragraphs[2]>>
    /\ classifier.medical_file.written

====
